---- MODULE Spec2Model ----
(***************************************************************************)
(* Model of the Alba video pipeline: the VideoPipeline component           *)
(* (components/VideoPipeline.tsx), the client side job driver              *)
(* generateVideoForScene and the character description precheck.           *)
(*                                                                         *)
(* Strings whose content matters (environment texts, names) are sequences  *)
(* of one-character strings so that String.prototype.trim can be computed. *)
(* Messages and URLs are tuples of parts; the JavaScript null of a         *)
(* `string | null` field is the empty tuple.                               *)
(***************************************************************************)
EXTENDS Integers, Sequences, FiniteSets, TLC

\* ------------------------------------------------------------------------
\* Bounds of the model
\* ------------------------------------------------------------------------
MaxScenes == 3
MaxChars == 2
MaxPolls == 1
MaxRuns == 2

\* ------------------------------------------------------------------------
\* Values
\* ------------------------------------------------------------------------
Null == <<>>

\* Environment texts a story breakdown returns in Spec.
EnvStrings == { <<" ", "a">> }
\* Environment texts a story breakdown returns in SpecBible.
BibleEnvStrings == { <<"a">>, <<" ", "a">>, <<"a", " ">>, <<"b">> }
\* Character names the user may type.
Names == { <<>>, <<"A">> }
\* Reference images (base64 payloads); 0 is the JavaScript null.
Images == {1, 2}
NoImage == 0
\* The name /api/generateCharacter picks for a generated character.
GeneratedName == <<"G">>
\* Images /api/generateCharacter may attach to a generated character.
GeneratedImages == {1}

visualStyleDefault == "Anime"
narrativeGenreDefault == "Fairy tale"
\* Options of the style and genre selects that SpecPrompt draws from.
visualStyleOptions == { "Anime", "Cyberpunk neon" }
narrativeGenreOptions == { "Fairy tale", "Historical drama" }

\* Texts of the scenes a story breakdown returns in Spec and SpecBible.
SceneDescriptionDefault == <<"d">>
SceneCharactersDefault == << <<"A">> >>
SceneActionDefault == <<"x">>

\* The text /api/describeCharacter returns for an image.
DescriptionOf(img) == <<"description of image", img>>
\* The lockedDescription handleGenerateCharacter sets together with an image.
GeneratedDescription(img) == <<"generated with image", img>>

BlobUrl(id) == <<"blob:", id>>

\* ------------------------------------------------------------------------
\* String.prototype.trim
\* ------------------------------------------------------------------------
RECURSIVE TrimLeft(_)
TrimLeft(s) ==
    IF s = <<>> THEN <<>>
    ELSE IF Head(s) = " " THEN TrimLeft(Tail(s)) ELSE s

RECURSIVE TrimRight(_)
TrimRight(s) ==
    IF s = <<>> THEN <<>>
    ELSE IF s[Len(s)] = " " THEN TrimRight(SubSeq(s, 1, Len(s) - 1)) ELSE s

Trim(s) == TrimRight(TrimLeft(s))

\* ------------------------------------------------------------------------
\* State
\* ------------------------------------------------------------------------
VARIABLES
    step,                   \* AppStep
    characters,             \* Character[]
    scenes,                 \* Scene[]
    videoStatuses,          \* VideoGenerationStatus[]
    error,                  \* run-level error message or Null
    generatingDescriptions,
    isStitching,
    finalVideoUrl,
    \* locals of the handleVideoGeneration invocation in progress
    pc,                     \* position of the async handler
    runScenes,              \* `scenes` captured by the callback
    enrichedCharacters,
    pendingDescriptions,    \* indices whose describe call has not settled
    globalBible,
    i,                      \* loop index (1-based)
    generatedVideos,
    generationFailed,
    operation,              \* `operation` of generateVideoForScene
    polls,                  \* poll attempts of the current scene
    \* history of the run, for stating the properties
    requests,               \* generation jobs sent: <<[sceneId, prevSceneId]>>
    describeCalls,          \* characters generateCharacterDescription was called for
    stitchCalls,            \* arguments of every stitchVideos call
    errorsSet,              \* run-level setError(message) calls of this run
    runs,                   \* handleVideoGeneration invocations so far
    \* videoStitchingService: the module and the stitchVideos call in progress
    ffmpeg,                 \* the module's `ffmpeg`: "null", "created" or "loaded"
    ffmpegFS,               \* files of the engine: file name -> data
    stitchIdx,              \* `i` of the loop stitchVideos is in (0-based)
    data,                   \* the file data stitchVideos has read
    thrown,                 \* the error stitchVideos threw
    listeners,              \* 'progress' listeners of the engine instance: the calls that registered one
    invoked,                \* callbacks the last progress event invoked: <<[call, progress]>>
    \* the video service behind /api/generateVideo and /api/pollOperation
    remote,                 \* operations of the video service: handle -> outcome
    submitResponse,         \* the last body /api/generateVideo answered, with its scene
    pollRequest             \* the last body posted to /api/pollOperation for the operation in progress

uiVars == <<step, characters, scenes, videoStatuses, error,
            generatingDescriptions, isStitching, finalVideoUrl>>
runVarsButPc == <<runScenes, enrichedCharacters, pendingDescriptions,
                  globalBible, i, generatedVideos, generationFailed, operation, polls>>
runVars == <<pc, runScenes, enrichedCharacters, pendingDescriptions,
             globalBible, i, generatedVideos, generationFailed, operation, polls>>
histVars == <<requests, describeCalls, stitchCalls, errorsSet, runs>>
stitchVars == <<ffmpeg, ffmpegFS, stitchIdx, data, thrown>>
progressVars == <<listeners, invoked>>
jobVars == <<remote, submitResponse, pollRequest>>
vars == <<uiVars, runVars, histVars, stitchVars, progressVars, jobVars>>

NoBible == [characters |-> <<>>, environments |-> <<>>,
            style |-> visualStyleDefault, genre |-> narrativeGenreDefault]
NoOperation == [done |-> FALSE, result |-> "none"]

NewCharacter(id) ==
    [id |-> id, name |-> <<>>, imageFile |-> FALSE,
     imageBase64 |-> NoImage, lockedDescription |-> Null]

Init ==
    /\ step = "input"
    /\ characters = << NewCharacter(1) >>
    /\ scenes = <<>>
    /\ videoStatuses = <<>>
    /\ error = Null
    /\ generatingDescriptions = FALSE
    /\ isStitching = FALSE
    /\ finalVideoUrl = Null
    /\ pc = "idle"
    /\ runScenes = <<>>
    /\ enrichedCharacters = <<>>
    /\ pendingDescriptions = {}
    /\ globalBible = NoBible
    /\ i = 0
    /\ generatedVideos = <<>>
    /\ generationFailed = FALSE
    /\ operation = NoOperation
    /\ polls = 0
    /\ requests = <<>>
    /\ describeCalls = {}
    /\ stitchCalls = <<>>
    /\ errorsSet = 0
    /\ runs = 0
    /\ ffmpeg = "null"
    /\ ffmpegFS = <<>>
    /\ stitchIdx = 0
    /\ data = Null
    /\ thrown = Null
    /\ listeners = <<>>
    /\ invoked = <<>>
    /\ remote = <<>>
    /\ submitResponse = Null
    /\ pollRequest = Null

\* ------------------------------------------------------------------------
\* Helpers
\* ------------------------------------------------------------------------
\* Date.now() as an id: a value no element of the list carries yet.
FreshId(list) ==
    CHOOSE n \in 1..(Len(list) + 1) : \A k \in 1..Len(list) : list[k].id # n

\* items.findIndex(item => item.id === id), 1-based; 0 when absent
FindIndex(items, id) ==
    IF \E k \in 1..Len(items) : items[k].id = id
    THEN CHOOSE k \in 1..Len(items) :
            items[k].id = id /\ \A j \in 1..(k - 1) : items[j].id # id
    ELSE 0

\* arrayMove of @dnd-kit/sortable: take the element at `from` out and put it
\* back at `to`.
arrayMove(items, from, to) ==
    LET without == SubSeq(items, 1, from - 1) \o SubSeq(items, from + 1, Len(items))
    IN  SubSeq(without, 1, to - 1) \o << items[from] >> \o SubSeq(without, to, Len(without))

\* ------------------------------------------------------------------------
\* Character editing (step "input")
\* ------------------------------------------------------------------------

\* What the CharacterInput form hands to onChange: the character it shows
\* with a new name, or with a newly uploaded reference image (file and
\* base64 payload are set together).
CharacterInputUpdates(char) ==
    { [char EXCEPT !.name = n] : n \in Names }
    \cup { [char EXCEPT !.imageFile = TRUE, !.imageBase64 = img] : img \in Images }

\* handleCharacterChange without the invalidation of the description
handleCharacterChange_KeepDescription(chars, id, updatedCharacter) ==
    [k \in 1..Len(chars) |-> IF chars[k].id = id THEN updatedCharacter ELSE chars[k]]

\* characters.map(char => char.id === id ? ... : char)
handleCharacterChange(chars, id, updatedCharacter) ==
    [k \in 1..Len(chars) |->
        IF chars[k].id = id
        THEN IF chars[k].imageBase64 # updatedCharacter.imageBase64
             THEN [updatedCharacter EXCEPT !.lockedDescription = Null]
             ELSE updatedCharacter
        ELSE chars[k]]

CharacterChange ==
    /\ step = "input"
    /\ \E k \in 1..Len(characters) :
         \E updated \in CharacterInputUpdates(characters[k]) :
            /\ updated # characters[k]
            /\ characters' = handleCharacterChange(characters, characters[k].id, updated)
    /\ UNCHANGED <<step, scenes, videoStatuses, error, generatingDescriptions,
                   isStitching, finalVideoUrl, runVars, histVars>>
    /\ UNCHANGED <<stitchVars, progressVars, jobVars>>

handleAddCharacter ==
    /\ step = "input"
    /\ Len(characters) < MaxChars
    /\ characters' = Append(characters, NewCharacter(FreshId(characters)))
    /\ UNCHANGED <<step, scenes, videoStatuses, error, generatingDescriptions,
                   isStitching, finalVideoUrl, runVars, histVars>>
    /\ UNCHANGED <<stitchVars, progressVars, jobVars>>

\* /api/generateCharacter answered (success path; the failure path only
\* reports): the new character gets a name, an image without a File object
\* and a lockedDescription built from the answer.
handleGenerateCharacter ==
    /\ step = "input"
    /\ Len(characters) < MaxChars
    /\ \E img \in GeneratedImages :
         characters' = Append(characters,
               [id |-> FreshId(characters), name |-> GeneratedName,
                imageFile |-> FALSE, imageBase64 |-> img,
                lockedDescription |-> GeneratedDescription(img)])
    /\ error' = Null
    /\ UNCHANGED <<step, scenes, videoStatuses, generatingDescriptions,
                   isStitching, finalVideoUrl, runVars, histVars>>
    /\ UNCHANGED <<stitchVars, progressVars, jobVars>>

\* ------------------------------------------------------------------------
\* Scene list (steps "input" and "review")
\* ------------------------------------------------------------------------

\* generatedScenesData.map((scene, index) => ({...scene, id: Date.now() + index,
\*                                             transitionToNext: 'fade'}))
ScenesWithIds(envs) ==
    [k \in 1..Len(envs) |->
        [id |-> k, scene_description |-> SceneDescriptionDefault,
         characters |-> SceneCharactersDefault, environment |-> envs[k],
         action |-> SceneActionDefault, transitionToNext |-> "fade"]]

\* success path of the story breakdown; its failure paths only report
handleStoryBreakdown ==
    /\ step = "input"
    /\ \E n \in 0..MaxScenes : \E envs \in [1..n -> EnvStrings] :
         scenes' = ScenesWithIds(envs)
    /\ step' = "review"
    /\ error' = Null
    /\ UNCHANGED <<characters, videoStatuses, generatingDescriptions,
                   isStitching, finalVideoUrl, runVars, histVars>>
    /\ UNCHANGED <<stitchVars, progressVars, jobVars>>

\* the "Back to Edit" button of the review step
BackToEdit ==
    /\ step = "review"
    /\ step' = "input"
    /\ UNCHANGED <<characters, scenes, videoStatuses, error, generatingDescriptions,
                   isStitching, finalVideoUrl, runVars, histVars>>
    /\ UNCHANGED <<stitchVars, progressVars, jobVars>>

handleDragEnd ==
    /\ step = "review"
    /\ \E active \in 1..Len(scenes) : \E over \in 1..Len(scenes) :
         /\ scenes[active].id # scenes[over].id
         /\ scenes' = arrayMove(scenes,
                                FindIndex(scenes, scenes[active].id),
                                FindIndex(scenes, scenes[over].id))
    /\ UNCHANGED <<step, characters, videoStatuses, error, generatingDescriptions,
                   isStitching, finalVideoUrl, runVars, histVars>>
    /\ UNCHANGED <<stitchVars, progressVars, jobVars>>

\* ------------------------------------------------------------------------
\* handleVideoGeneration: precheck (character descriptions)
\* ------------------------------------------------------------------------

\* NeedsDescription without the test of the cached description
NeedsDescription_IgnoreLocked(char) ==
    /\ char.imageBase64 # NoImage
    /\ char.imageFile

\* char.imageBase64 && char.imageFile && !char.lockedDescription
NeedsDescription(char) ==
    /\ char.imageBase64 # NoImage
    /\ char.imageFile
    /\ char.lockedDescription = Null

\* Messages generateCharacterDescription can throw with.
DescribeFailures ==
    { <<"Authentication failed. Please try again.">>,
      <<"Failed to connect to the character description service: ", "Request failed">> }

\* The "Generate All Videos" button: rendered in the review step, disabled
\* when there is no scene.  Runs up to the first await (Promise.all).
handleVideoGeneration ==
    /\ step = "review"
    /\ pc = "idle"
    /\ Len(scenes) # 0
    /\ runs < MaxRuns
    /\ step' = "generate"
    /\ error' = Null
    /\ generatingDescriptions' = TRUE
    /\ runScenes' = scenes
    /\ enrichedCharacters' = characters
    /\ pendingDescriptions' = { k \in 1..Len(characters) : NeedsDescription(characters[k]) }
    /\ describeCalls' = { characters[k].id : k \in pendingDescriptions' }
    /\ pc' = "precheck"
    /\ globalBible' = NoBible
    /\ i' = 0
    /\ generatedVideos' = <<>>
    /\ generationFailed' = FALSE
    /\ operation' = NoOperation
    /\ polls' = 0
    /\ requests' = <<>>
    /\ stitchCalls' = <<>>
    /\ errorsSet' = 0
    /\ runs' = runs + 1
    /\ UNCHANGED <<characters, scenes, videoStatuses, isStitching, finalVideoUrl>>
    /\ UNCHANGED <<stitchVars, progressVars, jobVars>>

\* One generateCharacterDescription call returns its text.
DescribeResolved ==
    /\ pc = "precheck"
    /\ \E k \in pendingDescriptions :
         /\ enrichedCharacters' =
               [enrichedCharacters EXCEPT ![k].lockedDescription =
                    DescriptionOf(enrichedCharacters[k].imageBase64)]
         /\ pendingDescriptions' = pendingDescriptions \ {k}
    /\ UNCHANGED <<uiVars, pc, runScenes, globalBible, i, generatedVideos,
                   generationFailed, operation, polls, histVars>>
    /\ UNCHANGED <<stitchVars, progressVars, jobVars>>

\* ------------------------------------------------------------------------
\* handleVideoGeneration: statuses, bible, per-scene loop, stitching
\* ------------------------------------------------------------------------

\* the statuses created in reverse scene order
initialStatuses_Reversed(scs) ==
    [k \in 1..Len(scs) |->
        [sceneIndex |-> k - 1, sceneId |-> scs[Len(scs) + 1 - k].id, status |-> "pending",
         videoUrl |-> Null, error |-> Null]]

\* scenes.map((scene, index) => ({sceneIndex, sceneId, status: 'pending', ...}))
initialStatuses(scs) ==
    [k \in 1..Len(scs) |->
        [sceneIndex |-> k - 1, sceneId |-> scs[k].id, status |-> "pending",
         videoUrl |-> Null, error |-> Null]]

\* [...new Set(values)]: the distinct values in order of first insertion
RECURSIVE SetInsertionOrder(_, _)
SetInsertionOrder(values, acc) ==
    IF values = <<>> THEN acc
    ELSE SetInsertionOrder(Tail(values),
            IF \E k \in 1..Len(acc) : acc[k] = Head(values)
            THEN acc ELSE Append(acc, Head(values)))

\* uniqueEnvironments that trims after deduplicating instead of before
uniqueEnvironments_TrimLate(scs) ==
    LET raw == [k \in 1..Len(scs) |-> scs[k].environment]
        distinct == SetInsertionOrder(raw, <<>>)
    IN  [k \in 1..Len(distinct) |->
            [id |-> <<"env_", k>>, description |-> Trim(distinct[k])]]

\* [...new Set(scenes.map(s => s.environment.trim()))]
\*     .map((env, index) => ({id: `env_${index + 1}`, description: String(env)}))
uniqueEnvironments(scs) ==
    LET trimmed == [k \in 1..Len(scs) |-> Trim(scs[k].environment)]
        distinct == SetInsertionOrder(trimmed, <<>>)
    IN  [k \in 1..Len(distinct) |-> [id |-> <<"env_", k>>, description |-> distinct[k]]]

\* enrichedCharacters.filter(c => c.name.trim())
RECURSIVE NamedCharacters(_)
NamedCharacters(chars) ==
    IF chars = <<>> THEN <<>>
    ELSE IF Trim(Head(chars).name) # <<>>
         THEN << Head(chars) >> \o NamedCharacters(Tail(chars))
         ELSE NamedCharacters(Tail(chars))

BuildGlobalBible(scs, chars) ==
    [characters |-> NamedCharacters(chars),
     environments |-> uniqueEnvironments(scs),
     style |-> visualStyleDefault,
     genre |-> narrativeGenreDefault]

\* the test of prev.map(s => s.sceneId === currentScene.id ? {...} : s)
IsStatusOf(s, sceneId) == s.sceneId = sceneId

\* the status update computed from the stale initialStatuses of the closure
\* instead of the previous state
SetStatus_Stale(prev, sceneId, status) ==
    [k \in 1..Len(prev) |->
        IF IsStatusOf(prev[k], sceneId)
        THEN [initialStatuses(runScenes)[k] EXCEPT !.status = status]
        ELSE initialStatuses(runScenes)[k]]

SetStatus(prev, sceneId, status) ==
    [k \in 1..Len(prev) |->
        IF IsStatusOf(prev[k], sceneId) THEN [prev[k] EXCEPT !.status = status] ELSE prev[k]]

\* the completion update that stores the URL but leaves the status alone
SetComplete_NoStatus(prev, sceneId, videoUrl) ==
    [k \in 1..Len(prev) |->
        IF IsStatusOf(prev[k], sceneId)
        THEN [prev[k] EXCEPT !.videoUrl = videoUrl] ELSE prev[k]]

SetComplete(prev, sceneId, videoUrl) ==
    [k \in 1..Len(prev) |->
        IF IsStatusOf(prev[k], sceneId)
        THEN [prev[k] EXCEPT !.status = "complete", !.videoUrl = videoUrl] ELSE prev[k]]

\* the error update that also stores the message as the videoUrl
SetError_WithUrl(prev, sceneId, errorMessage) ==
    [k \in 1..Len(prev) |->
        IF IsStatusOf(prev[k], sceneId)
        THEN [prev[k] EXCEPT !.status = "error", !.error = errorMessage,
                             !.videoUrl = errorMessage]
        ELSE prev[k]]

SetError(prev, sceneId, errorMessage) ==
    [k \in 1..Len(prev) |->
        IF IsStatusOf(prev[k], sceneId)
        THEN [prev[k] EXCEPT !.status = "error", !.error = errorMessage] ELSE prev[k]]

\* prevScene taken from the order of creation instead of the list order
prevSceneId_ByCreation(scs, idx) == IF scs[idx].id > 1 THEN scs[idx].id - 1 ELSE 0

\* const prevScene = i > 0 ? scenes[i - 1] : null   (idx is 1-based; 0 is null)
prevSceneId(scs, idx) == IF idx > 1 THEN scs[idx - 1].id ELSE 0

\* generatedVideos.find(v => v.sceneId === scene.id)
HasVideo(vids, sceneId) == \E k \in 1..Len(vids) : vids[k].sceneId = sceneId

FoundVideo(vids, sceneId) ==
    vids[CHOOSE k \in 1..Len(vids) :
            vids[k].sceneId = sceneId /\ \A j \in 1..(k - 1) : vids[j].sceneId # sceneId]

\* the clips taken in reverse scene order
videosToStitch_Reversed(scs, vids) ==
    [k \in 1..Len(scs) |->
        [url |-> FoundVideo(vids, scs[Len(scs) + 1 - k].id).url,
         transition |-> scs[Len(scs) + 1 - k].transitionToNext]]

\* scenes.map(scene => ({url: foundVideo!.url, transition: scene.transitionToNext}))
videosToStitch(scs, vids) ==
    [k \in 1..Len(scs) |->
        [url |-> FoundVideo(vids, scs[k].id).url, transition |-> scs[k].transitionToNext]]

\* the stitching condition without the generationFailed flag
ShouldStitch_IgnoreFailure(failed, vids) == Len(vids) > 0

\* if (!generationFailed && generatedVideos.length > 0)
ShouldStitch(failed, vids) == ~failed /\ Len(vids) > 0

StitchFailedMessage ==
    <<"Failed to stitch videos into a final movie. Please check the console for details.">>

\* Promise.all resolved: cache the descriptions, create the statuses and the
\* bible, reach the for loop.
PrecheckDone ==
    /\ pc = "precheck"
    /\ pendingDescriptions = {}
    /\ characters' = enrichedCharacters
    /\ generatingDescriptions' = FALSE
    /\ videoStatuses' = initialStatuses(runScenes)
    /\ globalBible' = BuildGlobalBible(runScenes, enrichedCharacters)
    /\ generatedVideos' = <<>>
    /\ generationFailed' = FALSE
    /\ i' = 1
    /\ pc' = "loop"
    /\ UNCHANGED <<step, scenes, error, isStitching, finalVideoUrl, runScenes,
                   enrichedCharacters, pendingDescriptions, operation, polls, histVars>>
    /\ UNCHANGED <<stitchVars, progressVars, jobVars>>

\* DescribeRejected with the `return` of the catch block left out: the
\* handler goes on to create the statuses and to enter the loop.
DescribeRejected_NoReturn ==
    /\ pc = "precheck"
    /\ \E k \in pendingDescriptions : \E msg \in DescribeFailures :
         error' = <<"Failed to analyze character images: ">> \o msg
    /\ errorsSet' = errorsSet + 1
    /\ generatingDescriptions' = FALSE
    /\ step' = "review"
    /\ pendingDescriptions' = {}
    /\ videoStatuses' = initialStatuses(runScenes)
    /\ globalBible' = BuildGlobalBible(runScenes, enrichedCharacters)
    /\ i' = 1
    /\ pc' = "loop"
    /\ UNCHANGED <<characters, scenes, isStitching, finalVideoUrl, runScenes,
                   enrichedCharacters, generatedVideos, generationFailed, operation,
                   polls, requests, describeCalls, stitchCalls, runs>>
    /\ UNCHANGED <<stitchVars, progressVars, jobVars>>

\* One generateCharacterDescription call throws: Promise.all rejects, the
\* catch block reports and returns; the locals of the invocation are gone.
DescribeRejected ==
    /\ pc = "precheck"
    /\ \E k \in pendingDescriptions : \E msg \in DescribeFailures :
         error' = <<"Failed to analyze character images: ">> \o msg
    /\ errorsSet' = errorsSet + 1
    /\ generatingDescriptions' = FALSE
    /\ step' = "review"
    /\ pc' = "idle"
    /\ pendingDescriptions' = {}
    /\ runScenes' = <<>>
    /\ enrichedCharacters' = <<>>
    /\ describeCalls' = {}
    /\ UNCHANGED <<characters, scenes, videoStatuses, isStitching, finalVideoUrl,
                   globalBible, i, generatedVideos, generationFailed, operation, polls,
                   requests, stitchCalls, runs>>
    /\ UNCHANGED <<stitchVars, progressVars, jobVars>>

\* for (let i = 0; i < scenes.length; i++): the loop test and, inside the
\* loop, the first status update and the call of generateVideoForScene up to
\* its first await.
LoopHead ==
    /\ pc = "loop"
    /\ IF i <= Len(runScenes)
       THEN /\ videoStatuses' = SetStatus(videoStatuses, runScenes[i].id, "generating")
            /\ pc' = "auth"
       ELSE /\ pc' = "afterLoop"
            /\ UNCHANGED videoStatuses
    /\ UNCHANGED <<step, characters, scenes, error, generatingDescriptions, isStitching,
                   finalVideoUrl, runScenes, enrichedCharacters, pendingDescriptions,
                   globalBible, i, generatedVideos, generationFailed, operation, polls,
                   histVars>>
    /\ UNCHANGED <<stitchVars, progressVars, jobVars>>

\* The code after the for loop, up to the await of stitchVideos.
AfterLoop ==
    /\ pc = "afterLoop"
    /\ IF ShouldStitch(generationFailed, generatedVideos)
       THEN IF \A k \in 1..Len(runScenes) : HasVideo(generatedVideos, runScenes[k].id)
            THEN /\ isStitching' = TRUE
                 /\ stitchCalls' = Append(stitchCalls, videosToStitch(runScenes, generatedVideos))
                 /\ pc' = "stitch"
                 /\ UNCHANGED <<error, errorsSet>>
            ELSE \* foundVideo is undefined: the TypeError lands in the catch block
                 /\ isStitching' = FALSE
                 /\ error' = StitchFailedMessage
                 /\ errorsSet' = errorsSet + 1
                 /\ pc' = "idle"
                 /\ UNCHANGED stitchCalls
       ELSE /\ pc' = "idle"
            /\ UNCHANGED <<isStitching, stitchCalls, error, errorsSet>>
    /\ UNCHANGED <<step, characters, scenes, videoStatuses, generatingDescriptions,
                   finalVideoUrl, runScenes, enrichedCharacters, pendingDescriptions,
                   globalBible, i, generatedVideos, generationFailed, operation, polls,
                   requests, describeCalls, runs>>
    /\ UNCHANGED <<stitchVars, progressVars, jobVars>>

\* ------------------------------------------------------------------------
\* /api/generateVideo: the directive composed from the posted scene
\* ------------------------------------------------------------------------
\* A text is a sequence of strings: the literal parts of a template are one
\* string each, embedded values are spliced in between them.

\* Array.prototype.join
RECURSIVE Join(_, _)
Join(texts, sep) ==
    IF texts = <<>> THEN <<>>
    ELSE IF Len(texts) = 1 THEN texts[1]
    ELSE texts[1] \o sep \o Join(Tail(texts), sep)

Includes(list, x) == \E k \in 1..Len(list) : list[k] = x

\* String.prototype.toLowerCase over the letters the model uses
LowerChar(c) == IF c = "A" THEN "a" ELSE IF c = "B" THEN "b" ELSE c
ToLowerCase(s) == [k \in 1..Len(s) |-> LowerChar(s[k])]

\* `text || fallback` for a text
OrText(text, fallback) == IF text = <<>> THEN fallback ELSE text

\* the text of a locked description
DescriptionText(d) == << d[1], ToString(d[2]) >>

\* `In a ${sceneStyle} aesthetic, with the dramatic tone of a ${genre}, `
OpeningClause(style, genre) ==
    << "In a ", style, " aesthetic, with the dramatic tone of a ", genre, ", " >>

\* const prevScene = i > 0 ? scenes[i - 1] : null, as an optional value:
\* <<>> is null, <<scene>> is the scene
prevSceneOf(scs, idx) == IF idx > 1 THEN << scs[idx - 1] >> ELSE <<>>

\* characters.filter(char => char.name && char.lockedDescription)
\*           .map(char => `${char.name}: ${char.lockedDescription}`).join(', ')
HasNameAndDescription(char) == char.name # <<>> /\ char.lockedDescription # Null
CharacterDetail(char) == char.name \o <<": ">> \o DescriptionText(char.lockedDescription)
characterDetails(chars) ==
    LET kept == SelectSeq(chars, HasNameAndDescription)
    IN  Join([k \in 1..Len(kept) |-> CharacterDetail(kept[k])], <<", ">>)

\* the part of the prompt added `if (prevScene)`
PreviousSceneContinuity(scene, prev) ==
    LET prevEnvironment == OrText(prev.environment, <<"unknown location">>)
        prevCharacters == Join(prev.characters, <<", ">>)
        prevAction == OrText(prev.action, <<"previous action">>)
        currentEnvironment == OrText(scene.environment, <<"unknown location">>)
        InPrev(name) == Includes(prev.characters, name)
        continuingCharacters == SelectSeq(scene.characters, InPrev)
    IN  <<" This scene continues from the previous scene where ">> \o prevCharacters
        \o <<" were in ">> \o prevEnvironment \o <<" doing: ">> \o prevAction \o <<".">>
        \o (IF Trim(ToLowerCase(prevEnvironment)) = Trim(ToLowerCase(currentEnvironment))
            THEN <<" Continue in the same ">> \o currentEnvironment
                 \o <<" location with consistent lighting, camera angles, weather, and time of day.">>
            ELSE <<" Transition logically from ">> \o prevEnvironment \o <<" to ">>
                 \o currentEnvironment \o <<" maintaining spatial and temporal coherence.">>)
        \o (IF continuingCharacters # <<>>
            THEN <<" Characters ">> \o Join(continuingCharacters, <<", ">>)
                 \o <<" continue from their previous positions and emotional states.">>
            ELSE <<>>)

\* the opening of the directive and the scene sentence
PromptHead(scene, bible) ==
    LET sceneStyle == IF bible.style = "" THEN "cinematic" ELSE bible.style
        genre == IF bible.genre = "" THEN "adventure" ELSE bible.genre
        sceneDesc == OrText(scene.scene_description, <<"A scene unfolds">>)
        characterNames == Join(scene.characters, <<", ">>)
    IN  OpeningClause(sceneStyle, genre) \o sceneDesc \o <<". The scene features ">>
        \o characterNames \o <<" in a compelling visual narrative.">>

\* The instruction block /api/continuity puts in front of its instructions
\* to the text model when there is no previous scene.
LockBlock ==
    << "IMPORTANT: This is the FIRST SCENE.",
       "You MUST lock the exact appearance of all characters to their canonical descriptions from the Film Bible.",
       "In all following scenes, these locked designs MUST NOT change in any way." >>

\* the composer with the first-scene block of /api/continuity in front
composePrompt_LockFirst(scene, chars, bible, prevScene) ==
    (IF prevScene = <<>> THEN LockBlock ELSE <<>>) \o PromptHead(scene, bible)

\* The complex request format of handleRequest: `prompt` for a body
\* { scene, characters, globalBible, prevScene }.
composePrompt(scene, chars, bible, prevScene) ==
    LET details == characterDetails(chars)
    IN  PromptHead(scene, bible)
        \o (IF chars # <<>> /\ details # <<>>
            THEN <<" Character appearances must be exactly: ">> \o details
                 \o <<". Maintain precise visual consistency for each character.">>
            ELSE <<>>)
        \o (IF prevScene # <<>> THEN PreviousSceneContinuity(scene, prevScene[1]) ELSE <<>>)

\* The body generateVideoForScene posts for scene idx of a run, with the
\* directive handleRequest composes from it and sends to the video model
\* (veoRequest.contents[0].parts[0].text; every model the UI offers is a
\* Veo model).
GenerateVideoRequest(scs, idx, chars, bible) ==
    [sceneId |-> scs[idx].id,
     prevSceneId |-> prevSceneId(scs, idx),
     scene |-> scs[idx],
     characters |-> chars,
     globalBible |-> bible,
     prevScene |-> prevSceneOf(scs, idx),
     prompt |-> composePrompt(scs[idx], chars, bible, prevSceneOf(scs, idx))]

\* ------------------------------------------------------------------------
\* generateVideoForScene, as awaited by the loop body
\* ------------------------------------------------------------------------

\* what /api/generateVideo and /api/pollOperation can answer
Operations ==
    { [done |-> FALSE, result |-> "none"],
      [done |-> TRUE, result |-> "video"],
      [done |-> TRUE, result |-> "error"],
      [done |-> TRUE, result |-> "novideo"] }

\* catch (error) { throw new Error(`An unexpected error ...: ${error.message}`) }
Wrapped(msg) == <<"An unexpected error occurred during video generation: ">> \o msg

AuthFailedMessage == Wrapped(<<"Authentication failed. Please try again.">>)
SubmitFailedMessage == Wrapped(<<"Request failed with status">>)
FetchFailedMessage == Wrapped(<<"Failed to fetch">>)
JobFailedMessage == Wrapped(<<"Video generation failed: ", "operation.error.message">>)
NoVideoMessage == Wrapped(<<"Video generation completed, but no video file was found.">>)
DownloadFailedMessage == Wrapped(<<"Failed to download the generated video (status)">>)

\* the catch block without `break`: the loop goes on with the next scene
CatchSceneError_NoBreak(errorMessage) ==
    /\ videoStatuses' = SetError(videoStatuses, runScenes[i].id, errorMessage)
    /\ generationFailed' = TRUE
    /\ i' = i + 1
    /\ pc' = "loop"

\* The catch block of the loop body: record the error on the scene, set
\* generationFailed and break.
CatchSceneError(errorMessage) ==
    /\ videoStatuses' = SetError(videoStatuses, runScenes[i].id, errorMessage)
    /\ generationFailed' = TRUE
    /\ pc' = "afterLoop"
    /\ UNCHANGED i

\* the checks after the polling loop left out: every finished operation goes
\* on to the download
AfterOperationDone_IgnoreError(op) ==
    /\ pc' = "download"
    /\ UNCHANGED <<videoStatuses, generationFailed, i>>

\* The code after the polling loop, once operation.done holds.
AfterOperationDone(op) ==
    IF op.result = "error" THEN CatchSceneError(JobFailedMessage)
    ELSE IF op.result # "video" THEN CatchSceneError(NoVideoMessage)
    ELSE /\ pc' = "download"
         /\ UNCHANGED <<videoStatuses, generationFailed, i>>

AuthFailed ==
    /\ pc = "auth"
    /\ CatchSceneError(AuthFailedMessage)
    /\ UNCHANGED <<step, characters, scenes, error, generatingDescriptions, isStitching,
                   finalVideoUrl, runScenes, enrichedCharacters, pendingDescriptions,
                   globalBible, generatedVideos, operation, polls, histVars>>
    /\ UNCHANGED <<stitchVars, progressVars, jobVars>>

\* authenticated: the generation job is posted to /api/generateVideo
AuthOk ==
    /\ pc = "auth"
    /\ pc' = "submit"
    /\ requests' = Append(requests,
          GenerateVideoRequest(runScenes, i, enrichedCharacters, globalBible))
    /\ UNCHANGED <<uiVars, runScenes, enrichedCharacters, pendingDescriptions,
                   globalBible, i, generatedVideos, generationFailed, operation, polls,
                   describeCalls, stitchCalls, errorsSet, runs>>
    /\ UNCHANGED <<stitchVars, progressVars, jobVars>>

SubmitFailed ==
    /\ pc = "submit"
    /\ \E msg \in {SubmitFailedMessage, FetchFailedMessage} : CatchSceneError(msg)
    /\ UNCHANGED <<step, characters, scenes, error, generatingDescriptions, isStitching,
                   finalVideoUrl, runScenes, enrichedCharacters, pendingDescriptions,
                   globalBible, generatedVideos, operation, polls, histVars>>
    /\ UNCHANGED <<stitchVars, progressVars, jobVars>>

\* the submission answered with an operation
SubmitResponse ==
    /\ pc = "submit"
    /\ \E op \in Operations :
         /\ operation' = op
         /\ IF op.done
            THEN AfterOperationDone(op)
            ELSE /\ pc' = "wait"
                 /\ UNCHANGED <<videoStatuses, generationFailed, i>>
    /\ polls' = 0
    /\ UNCHANGED <<step, characters, scenes, error, generatingDescriptions, isStitching,
                   finalVideoUrl, runScenes, enrichedCharacters, pendingDescriptions,
                   globalBible, generatedVideos, histVars>>
    /\ UNCHANGED <<stitchVars, progressVars, jobVars>>

\* a poll answered with a non-2xx status: nothing is read, the loop goes on
PollNotOk ==
    /\ pc = "wait"
    /\ polls < MaxPolls
    /\ polls' = polls + 1
    /\ UNCHANGED <<uiVars, pc, runScenes, enrichedCharacters, pendingDescriptions,
                   globalBible, i, generatedVideos, generationFailed, operation, histVars>>
    /\ UNCHANGED <<stitchVars, progressVars, jobVars>>

\* the poll request itself threw (network)
PollThrows ==
    /\ pc = "wait"
    /\ CatchSceneError(FetchFailedMessage)
    /\ UNCHANGED <<step, characters, scenes, error, generatingDescriptions, isStitching,
                   finalVideoUrl, runScenes, enrichedCharacters, pendingDescriptions,
                   globalBible, generatedVideos, operation, polls, histVars>>
    /\ UNCHANGED <<stitchVars, progressVars, jobVars>>

\* onPoll of handleVideoGeneration: if (!op.done) set the status to 'polling'
onPoll(statuses, sceneId, op) ==
    IF ~op.done THEN SetStatus(statuses, sceneId, "polling") ELSE statuses

\* a poll answered 2xx: operation = await pollResponse.json(); onPoll(operation)
PollResponse ==
    /\ pc = "wait"
    /\ \E op \in Operations :
         /\ operation' = op
         /\ IF op.done
            THEN /\ AfterOperationDone(op)
                 /\ UNCHANGED polls
            ELSE /\ polls < MaxPolls
                 /\ polls' = polls + 1
                 /\ videoStatuses' = onPoll(videoStatuses, runScenes[i].id, op)
                 /\ UNCHANGED <<pc, generationFailed, i>>
    /\ UNCHANGED <<step, characters, scenes, error, generatingDescriptions, isStitching,
                   finalVideoUrl, runScenes, enrichedCharacters, pendingDescriptions,
                   globalBible, generatedVideos, histVars>>
    /\ UNCHANGED <<stitchVars, progressVars, jobVars>>

DownloadFailed ==
    /\ pc = "download"
    /\ \E msg \in {DownloadFailedMessage, FetchFailedMessage} : CatchSceneError(msg)
    /\ UNCHANGED <<step, characters, scenes, error, generatingDescriptions, isStitching,
                   finalVideoUrl, runScenes, enrichedCharacters, pendingDescriptions,
                   globalBible, generatedVideos, operation, polls, histVars>>
    /\ UNCHANGED <<stitchVars, progressVars, jobVars>>

\* generateVideoForScene returned the blob URL: mark the scene complete, push
\* the video, i++
DownloadOk ==
    /\ pc = "download"
    /\ LET id == runScenes[i].id
           videoUrl == BlobUrl(id)
       IN  /\ videoStatuses' = SetComplete(videoStatuses, id, videoUrl)
           /\ generatedVideos' = Append(generatedVideos, [url |-> videoUrl, sceneId |-> id])
    /\ i' = i + 1
    /\ pc' = "loop"
    /\ UNCHANGED <<step, characters, scenes, error, generatingDescriptions, isStitching,
                   finalVideoUrl, runScenes, enrichedCharacters, pendingDescriptions,
                   globalBible, generationFailed, operation, polls, histVars>>
    /\ UNCHANGED <<stitchVars, progressVars, jobVars>>

\* ------------------------------------------------------------------------
\* videoStitchingService: stitchVideos
\*
\* Spec takes the awaited call as the handler sees it: it resolves with the
\* URL of the movie (StitchOk) or rejects (StitchFailed).  SpecStitch takes
\* the call apart, await by await, on the engine instance the module keeps.
\* ------------------------------------------------------------------------
clipDurationBeforeTransition == 7
transitionDuration == 1

TransitionTypes == { "fade", "dissolve", "wipeleft", "wiperight", "circleopen" }

\* transitionToFfmpegFilter[transition] || 'fade'
transitionToFfmpegFilter(transition) ==
    IF transition \in TransitionTypes THEN transition ELSE "fade"

\* `scene${i}.mp4` and 'final_movie.mp4'
SceneFile(k) == << "scene", k, ".mp4" >>
FinalFile == << "final_movie.mp4" >>

\* A blob URL is modelled by the data of its blob.
getFileDataFromBlobUrl(url) == url[2]
createObjectURL(fileData) == << "blob:", fileData >>

\* the engine's file system
WriteFile(fs, name, fileData) ==
    [n \in (DOMAIN fs) \cup {name} |-> IF n = name THEN fileData ELSE fs[n]]
DeleteFile(fs, name) == [n \in (DOMAIN fs) \ {name} |-> fs[n]]

\* the `videos` argument of the stitchVideos call in progress
videos == stitchCalls[Len(stitchCalls)]

\* stream labels: `${i}:v`, `${i}:a`, `v${i}`, `a${i}`
VideoInput(k) == << "input:v", k >>
AudioInput(k) == << "input:a", k >>
VideoOutput(k) == << "v", k >>
AudioOutput(k) == << "a", k >>

\* const offset = i * clipDurationBeforeTransition, with the factor left out
TransitionOffset_NoIndex(k) == clipDurationBeforeTransition

\* const offset = i * clipDurationBeforeTransition
TransitionOffset(k) == k * clipDurationBeforeTransition

\* The loop that builds the filter graph: iteration k (k = 1 .. N-1, the
\* code's i) appends one xfade and one acrossfade entry; vids is 1-based, so
\* the code's videos[i-1] is vids[k].
\* the transition of the clip after the edge instead of the clip before it
TransitionOf_Next(vids, k) == vids[k + 1].transition

\* videos[i-1].transition
TransitionOf(vids, k) == vids[k].transition

RECURSIVE BuildFilterGraph(_, _, _, _, _)
BuildFilterGraph(vids, k, filterGraph, lastVideoOutput, lastAudioOutput) ==
    IF k >= Len(vids)
    THEN [filterGraph |-> filterGraph,
          lastVideoOutput |-> lastVideoOutput, lastAudioOutput |-> lastAudioOutput]
    ELSE BuildFilterGraph(vids, k + 1,
            filterGraph \o
            << [filter |-> "xfade", left |-> lastVideoOutput, right |-> VideoInput(k),
                transition |-> transitionToFfmpegFilter(TransitionOf(vids, k)),
                duration |-> transitionDuration, offset |-> TransitionOffset(k),
                out |-> VideoOutput(k)],
               [filter |-> "acrossfade", left |-> lastAudioOutput, right |-> AudioInput(k),
                d |-> transitionDuration, out |-> AudioOutput(k)] >>,
            VideoOutput(k), AudioOutput(k))

\* the command mapping the outputs of the first transition
Command_MapFirst(vids) ==
    LET built == BuildFilterGraph(vids, 1, <<>>, VideoInput(0), AudioInput(0))
    IN  [inputs |-> [k \in 1..Len(vids) |-> SceneFile(k - 1)],
         filterGraph |-> built.filterGraph,
         mapVideo |-> VideoOutput(1),
         mapAudio |-> AudioOutput(1),
         output |-> FinalFile]

\* the `command` handed to exec
Command(vids) ==
    LET built == BuildFilterGraph(vids, 1, <<>>, VideoInput(0), AudioInput(0))
    IN  [inputs |-> [k \in 1..Len(vids) |-> SceneFile(k - 1)],
         filterGraph |-> built.filterGraph,
         mapVideo |-> built.lastVideoOutput,
         mapAudio |-> built.lastAudioOutput,
         output |-> FinalFile]

\* what the engine writes as the output file of a command
Composed(fs, command) ==
    [clips |-> [k \in 1..Len(command.inputs) |-> fs[command.inputs[k]]],
     filterGraph |-> command.filterGraph,
     mapVideo |-> command.mapVideo,
     mapAudio |-> command.mapAudio]

\* What a call of the engine (or a dynamic import) can reject with: an Error
\* carrying the diagnostic message, or a value that is no Error.
EngineDiagnostic == << "engine diagnostic" >>
Rejections ==
    { [isError |-> TRUE, message |-> EngineDiagnostic],
      [isError |-> FALSE, message |-> EngineDiagnostic] }

\* getFileDataFromBlobUrl: the blob could not be fetched
FetchBlobError ==
    [isError |-> TRUE, message |-> << "Failed to fetch blob data from url. Status: status" >>]

\* The catch block of stitchVideos: wrap the message and rethrow.  `from`
\* keeps which call failed.
StitchCatch(err, op) ==
    /\ thrown' = [message |-> << "Failed to create the final movie. Technical details: " >>
                              \o (IF err.isError THEN err.message
                                  ELSE << "An unknown issue occurred." >>),
                  from |-> op]
    /\ pc' = "stitch_threw"
    /\ data' = Null
    /\ stitchIdx' = 0

\* ffmpegInstance.on('progress', ...): one more listener on the instance, for
\* the callback of the call in progress
OnProgress(registered, call) == Append(registered, call)

\* loadFFmpeg returns the cached instance, or a new one whose load completed;
\* stitchVideos then subscribes to the progress signal of the instance
loadFFmpeg ==
    /\ pc = "stitch_load"
    /\ \/ /\ ffmpeg # "null"
          /\ UNCHANGED ffmpeg
          /\ listeners' = OnProgress(listeners, Len(stitchCalls))
       \/ /\ ffmpeg = "null"
          /\ ffmpeg' = "loaded"
          /\ listeners' = OnProgress(<<>>, Len(stitchCalls))
    /\ pc' = "stitch_write"
    /\ stitchIdx' = 0
    /\ UNCHANGED <<uiVars, runScenes, enrichedCharacters, pendingDescriptions, globalBible,
                   i, generatedVideos, generationFailed, operation, polls, histVars,
                   ffmpegFS, data, thrown, invoked, jobVars>>

\* loadFFmpeg rejects: a dynamic import failed (no instance yet) or
\* ffmpeg.load() failed (the instance is already assigned)
loadFFmpegFailed ==
    /\ pc = "stitch_load"
    /\ ffmpeg = "null"
    /\ ffmpeg' \in { "null", "created" }
    /\ \E err \in Rejections : StitchCatch(err, "load")
    /\ UNCHANGED <<uiVars, runScenes, enrichedCharacters, pendingDescriptions, globalBible,
                   i, generatedVideos, generationFailed, operation, polls, histVars,
                   ffmpegFS>>
    /\ UNCHANGED <<progressVars, jobVars>>

\* the single-clip case not told apart: every list goes to exec
AfterWrites_AlwaysExec(vids) == "stitch_exec"

\* if (videos.length === 1) { read scene0.mp4 and return } else build the graph
AfterWrites(vids) == IF Len(vids) = 1 THEN "stitch_single" ELSE "stitch_exec"

\* one iteration of the loop that writes the clips
StitchWriteFile ==
    /\ pc = "stitch_write"
    /\ ffmpeg = "loaded"
    /\ ffmpegFS' = WriteFile(ffmpegFS, SceneFile(stitchIdx),
                             getFileDataFromBlobUrl(videos[stitchIdx + 1].url))
    /\ stitchIdx' = stitchIdx + 1
    /\ pc' = IF stitchIdx + 1 < Len(videos) THEN "stitch_write" ELSE AfterWrites(videos)
    /\ UNCHANGED <<uiVars, runScenes, enrichedCharacters, pendingDescriptions, globalBible,
                   i, generatedVideos, generationFailed, operation, polls, histVars,
                   ffmpeg, data, thrown>>
    /\ UNCHANGED <<progressVars, jobVars>>

\* the blob of a clip cannot be fetched
StitchFetchFailed ==
    /\ pc = "stitch_write"
    /\ StitchCatch(FetchBlobError, "fetch")
    /\ UNCHANGED <<uiVars, runScenes, enrichedCharacters, pendingDescriptions, globalBible,
                   i, generatedVideos, generationFailed, operation, polls, histVars,
                   ffmpeg, ffmpegFS>>
    /\ UNCHANGED <<progressVars, jobVars>>

\* videos.length === 1: read the clip back and return it
StitchReadSingle ==
    /\ pc = "stitch_single"
    /\ SceneFile(0) \in DOMAIN ffmpegFS
    /\ data' = ffmpegFS[SceneFile(0)]
    /\ pc' = "stitch_return"
    /\ UNCHANGED <<uiVars, runScenes, enrichedCharacters, pendingDescriptions, globalBible,
                   i, generatedVideos, generationFailed, operation, polls, histVars,
                   ffmpeg, ffmpegFS, stitchIdx, thrown>>
    /\ UNCHANGED <<progressVars, jobVars>>

\* Progress is counted in hundredths: ProgressOne is the 1 of Math.min(1, progress).
ProgressOne == 100
\* What the progress signal of the engine may report: the engine computes it
\* from the time stamps of its log, it can be below 0 and above 1.
ProgressValues == { -50, 50, 150 }

Min(a, b) == IF a <= b THEN a ELSE b

\* ({ progress }) => { onProgress(Math.min(1, progress)) }
ForwardedProgress(progress) == Min(ProgressOne, progress)

\* The engine emits 'progress': every listener registered on the instance
\* is called, in the order of registration.
Emit(registered, progress) ==
    [k \in 1..Len(registered) |->
        [call |-> registered[k], progress |-> ForwardedProgress(progress)]]

\* a progress event of the engine while exec(command) runs
EngineProgress ==
    /\ pc = "stitch_exec"
    /\ \E progress \in ProgressValues : invoked' = Emit(listeners, progress)
    /\ UNCHANGED <<uiVars, runVars, histVars, stitchVars, listeners, jobVars>>

\* exec(command) resolves: the engine has written the output file
StitchExec ==
    /\ pc = "stitch_exec"
    /\ ffmpegFS' = WriteFile(ffmpegFS, FinalFile, Composed(ffmpegFS, Command(videos)))
    /\ pc' = "stitch_read"
    /\ UNCHANGED <<uiVars, runScenes, enrichedCharacters, pendingDescriptions, globalBible,
                   i, generatedVideos, generationFailed, operation, polls, histVars,
                   ffmpeg, stitchIdx, data, thrown>>
    /\ UNCHANGED <<progressVars, jobVars>>

\* readFile('final_movie.mp4')
StitchRead ==
    /\ pc = "stitch_read"
    /\ FinalFile \in DOMAIN ffmpegFS
    /\ data' = ffmpegFS[FinalFile]
    /\ stitchIdx' = 0
    /\ pc' = "stitch_delete"
    /\ UNCHANGED <<uiVars, runScenes, enrichedCharacters, pendingDescriptions, globalBible,
                   i, generatedVideos, generationFailed, operation, polls, histVars,
                   ffmpeg, ffmpegFS, thrown>>
    /\ UNCHANGED <<progressVars, jobVars>>

\* one iteration of the loop that deletes the clips; after the last one
\* stitchVideos returns
StitchDeleteFile ==
    /\ pc = "stitch_delete"
    /\ ffmpegFS' = DeleteFile(ffmpegFS, SceneFile(stitchIdx))
    /\ stitchIdx' = stitchIdx + 1
    /\ pc' = IF stitchIdx + 1 < Len(videos) THEN "stitch_delete" ELSE "stitch_return"
    /\ UNCHANGED <<uiVars, runScenes, enrichedCharacters, pendingDescriptions, globalBible,
                   i, generatedVideos, generationFailed, operation, polls, histVars,
                   ffmpeg, data, thrown>>
    /\ UNCHANGED <<progressVars, jobVars>>

\* the call of the engine stitchVideos is waiting for
EngineCall ==
    IF pc = "stitch_write" THEN "writeFile"
    ELSE IF pc = "stitch_exec" THEN "exec"
    ELSE IF pc = "stitch_delete" THEN "deleteFile"
    ELSE "readFile"

\* writeFile, exec, readFile or deleteFile rejects
StitchEngineRejects ==
    /\ pc \in { "stitch_write", "stitch_single", "stitch_exec", "stitch_read", "stitch_delete" }
    /\ \E err \in Rejections : StitchCatch(err, EngineCall)
    /\ UNCHANGED <<uiVars, runScenes, enrichedCharacters, pendingDescriptions, globalBible,
                   i, generatedVideos, generationFailed, operation, polls, histVars,
                   ffmpeg, ffmpegFS>>
    /\ UNCHANGED <<progressVars, jobVars>>

\* the call returns: its promise resolves with the URL of the data read
StitchResolved ==
    /\ pc = "stitch_return"
    /\ finalVideoUrl' = createObjectURL(data)
    /\ pc' = "idle"
    /\ data' = Null
    /\ stitchIdx' = 0
    /\ UNCHANGED <<step, characters, scenes, videoStatuses, error, generatingDescriptions,
                   isStitching, runVarsButPc, histVars, ffmpeg, ffmpegFS, thrown>>
    /\ UNCHANGED <<progressVars, jobVars>>

\* the call has thrown: its promise rejects
StitchRejected ==
    /\ pc = "stitch_threw"
    /\ pc' = "idle"
    /\ thrown' = Null
    /\ UNCHANGED <<uiVars, runVarsButPc, histVars, ffmpeg, ffmpegFS, stitchIdx, data>>
    /\ UNCHANGED <<progressVars, jobVars>>

\* The scenes SpecStitch composes: one to MaxScenes scenes, each with one of
\* two transitions chosen in the review step.
StitchSceneLists ==
    UNION { { [k \in 1..n |->
                [id |-> k, scene_description |-> SceneDescriptionDefault,
                 characters |-> SceneCharactersDefault, environment |-> <<"a">>,
                 action |-> SceneActionDefault, transitionToNext |-> ts[k]]] :
              ts \in [1..n -> { "fade", "wipeleft" }] } :
            n \in 1..MaxScenes }

\* the generatedVideos of a run in which every scene succeeded
GeneratedVideosOf(scs) ==
    [k \in 1..Len(scs) |-> [url |-> BlobUrl(scs[k].id), sceneId |-> scs[k].id]]

\* handleVideoGeneration reaches its call of stitchVideos(videosToStitch,
\* onProgress) with every scene generated
stitchVideos ==
    /\ pc = "idle"
    /\ Len(stitchCalls) < 2
    /\ \E scs \in StitchSceneLists :
         /\ runScenes' = scs
         /\ generatedVideos' = GeneratedVideosOf(scs)
         /\ stitchCalls' = Append(stitchCalls, videosToStitch(scs, GeneratedVideosOf(scs)))
    /\ finalVideoUrl' = Null
    /\ pc' = "stitch_load"
    /\ invoked' = <<>>
    /\ UNCHANGED <<step, characters, scenes, videoStatuses, error, generatingDescriptions,
                   isStitching, enrichedCharacters, pendingDescriptions, globalBible, i,
                   generationFailed, operation, polls, requests, describeCalls, errorsSet,
                   runs, stitchVars, listeners, jobVars>>

\* The data a call that returns hands back as the movie: the clip for one
\* clip, the output of the command otherwise.
StitchResult(vids) ==
    IF Len(vids) = 1 THEN getFileDataFromBlobUrl(vids[1].url)
    ELSE [clips |-> [k \in 1..Len(vids) |-> getFileDataFromBlobUrl(vids[k].url)],
          filterGraph |-> Command(vids).filterGraph,
          mapVideo |-> Command(vids).mapVideo,
          mapAudio |-> Command(vids).mapAudio]

\* stitchVideos resolved: setFinalVideoUrl, setStep('finalize'), finally
StitchOk ==
    /\ pc = "stitch"
    /\ finalVideoUrl' = createObjectURL(StitchResult(videos))
    /\ step' = "finalize"
    /\ isStitching' = FALSE
    /\ pc' = "idle"
    /\ UNCHANGED <<characters, scenes, videoStatuses, error, generatingDescriptions,
                   runScenes, enrichedCharacters, pendingDescriptions, globalBible, i,
                   generatedVideos, generationFailed, operation, polls, histVars,
                   stitchVars, progressVars, jobVars>>

\* the catch block around stitchVideos with its setError left out
StitchFailed_Silent ==
    /\ pc = "stitch"
    /\ isStitching' = FALSE
    /\ pc' = "idle"
    /\ UNCHANGED <<step, characters, scenes, videoStatuses, generatingDescriptions,
                   finalVideoUrl, runScenes, enrichedCharacters, pendingDescriptions,
                   globalBible, i, generatedVideos, generationFailed, operation, polls,
                   histVars, error, stitchVars, progressVars, jobVars>>

\* stitchVideos rejected: the catch and finally blocks of the handler
StitchFailed ==
    /\ pc = "stitch"
    /\ error' = StitchFailedMessage
    /\ errorsSet' = errorsSet + 1
    /\ isStitching' = FALSE
    /\ pc' = "idle"
    /\ UNCHANGED <<step, characters, scenes, videoStatuses, generatingDescriptions,
                   finalVideoUrl, runScenes, enrichedCharacters, pendingDescriptions,
                   globalBible, i, generatedVideos, generationFailed, operation, polls,
                   requests, describeCalls, stitchCalls, runs, stitchVars, progressVars, jobVars>>

\* ------------------------------------------------------------------------
\* Start over
\* ------------------------------------------------------------------------
isGenerating ==
    \/ generatingDescriptions
    \/ \E k \in 1..Len(videoStatuses) : videoStatuses[k].status \in {"generating", "polling"}
    \/ isStitching

\* "Start Over": rendered in the generate step when nothing is generating and
\* in the finalize step; no click is handled while the handler is between two
\* awaits (pc = "idle").  The locals and the history of the finished
\* invocation are dropped with it.
handleReset ==
    /\ \/ step = "generate" /\ ~isGenerating
       \/ step = "finalize"
    /\ pc = "idle"
    /\ characters' = << NewCharacter(1) >>
    /\ scenes' = <<>>
    /\ videoStatuses' = <<>>
    /\ error' = Null
    /\ isStitching' = FALSE
    /\ finalVideoUrl' = Null
    /\ step' = "input"
    /\ runScenes' = <<>>
    /\ enrichedCharacters' = <<>>
    /\ globalBible' = NoBible
    /\ i' = 0
    /\ generatedVideos' = <<>>
    /\ generationFailed' = FALSE
    /\ operation' = NoOperation
    /\ polls' = 0
    /\ requests' = <<>>
    /\ describeCalls' = {}
    /\ stitchCalls' = <<>>
    /\ errorsSet' = 0
    /\ UNCHANGED <<generatingDescriptions, pc, pendingDescriptions, runs>>
    /\ UNCHANGED <<stitchVars, progressVars, jobVars>>

\* ------------------------------------------------------------------------
\* Specification
\* ------------------------------------------------------------------------
Next ==
    \/ CharacterChange
    \/ handleAddCharacter
    \/ handleGenerateCharacter
    \/ handleStoryBreakdown
    \/ BackToEdit
    \/ handleDragEnd
    \/ handleVideoGeneration
    \/ DescribeResolved
    \/ DescribeRejected
    \/ PrecheckDone
    \/ LoopHead
    \/ AfterLoop
    \/ AuthFailed
    \/ AuthOk
    \/ SubmitFailed
    \/ SubmitResponse
    \/ PollNotOk
    \/ PollThrows
    \/ PollResponse
    \/ DownloadFailed
    \/ DownloadOk
    \/ StitchOk
    \/ StitchFailed
    \/ handleReset

Spec == Init /\ [][Next]_vars

\* ------------------------------------------------------------------------
\* SpecBible: the review step right after a story breakdown that returned
\* scenes with environment texts from BibleEnvStrings (one unnamed character
\* without image, as after construction), then reordering and one run.
\* ------------------------------------------------------------------------
InitBible ==
    /\ step = "review"
    /\ characters = << NewCharacter(1) >>
    /\ scenes \in UNION { { ScenesWithIds(envs) : envs \in [1..n -> BibleEnvStrings] } :
                          n \in 1..MaxScenes }
    /\ videoStatuses = <<>>
    /\ error = Null
    /\ generatingDescriptions = FALSE
    /\ isStitching = FALSE
    /\ finalVideoUrl = Null
    /\ pc = "idle"
    /\ runScenes = <<>>
    /\ enrichedCharacters = <<>>
    /\ pendingDescriptions = {}
    /\ globalBible = NoBible
    /\ i = 0
    /\ generatedVideos = <<>>
    /\ generationFailed = FALSE
    /\ operation = NoOperation
    /\ polls = 0
    /\ requests = <<>>
    /\ describeCalls = {}
    /\ stitchCalls = <<>>
    /\ errorsSet = 0
    /\ runs = 0
    /\ ffmpeg = "null"
    /\ ffmpegFS = <<>>
    /\ stitchIdx = 0
    /\ data = Null
    /\ thrown = Null
    /\ listeners = <<>>
    /\ invoked = <<>>
    /\ remote = <<>>
    /\ submitResponse = Null
    /\ pollRequest = Null

NextBible ==
    \/ handleDragEnd
    \/ handleVideoGeneration
    \/ PrecheckDone
    \/ LoopHead
    \/ AfterLoop
    \/ AuthFailed
    \/ AuthOk
    \/ SubmitFailed
    \/ SubmitResponse
    \/ PollNotOk
    \/ PollThrows
    \/ PollResponse
    \/ DownloadFailed
    \/ DownloadOk
    \/ StitchOk
    \/ StitchFailed

SpecBible == InitBible /\ [][NextBible]_vars

\* ------------------------------------------------------------------------
\* SpecStitch: the stitching service on its own, two successive calls of
\* stitchVideos on the engine instance of the module, with lists of one to
\* MaxScenes clips.
\* ------------------------------------------------------------------------
NextStitch ==
    \/ stitchVideos
    \/ loadFFmpeg
    \/ loadFFmpegFailed
    \/ StitchWriteFile
    \/ StitchFetchFailed
    \/ StitchReadSingle
    \/ EngineProgress
    \/ StitchExec
    \/ StitchRead
    \/ StitchDeleteFile
    \/ StitchEngineRejects
    \/ StitchResolved
    \/ StitchRejected

SpecStitch == Init /\ [][NextStitch]_vars

\* ------------------------------------------------------------------------
\* SpecJob: the job driver together with the two endpoints it talks to,
\* /api/generateVideo and /api/pollOperation, and the video service behind
\* them.  A handle is the number of the operation at the service; a JSON
\* object is a record, a key that is absent is `undefined`.
\* ------------------------------------------------------------------------

\* the 200 answer of /api/generateVideo: {operationName, status: 'generating', ...}
GenerateVideoResponse(handle) == [operationName |-> handle, status |-> "generating"]

\* while (!operation.done): an absent `done` is undefined, which is falsy
IsDone(op) == "done" \in DOMAIN op /\ op.done

\* JSON.stringify({operationName: operation.name}): a key whose value is
\* undefined is left out
PollBody(op) == IF "name" \in DOMAIN op THEN [operationName |-> op.name] ELSE <<>>

\* the operation resource the video service returns for a handle
OperationResource(handle, outcome) ==
    [name |-> handle, done |-> outcome # "running",
     result |-> IF outcome = "running" THEN "none" ELSE outcome]

\* handleRequest of /api/pollOperation: 400 without operationName, the
\* status of the service when it does not answer ok, else the operation
pollOperationHandler(body, operations) ==
    IF "operationName" \notin DOMAIN body
    THEN [ok |-> FALSE, status |-> 400]
    ELSE IF body.operationName \notin DOMAIN operations
    THEN [ok |-> FALSE, status |-> 404]
    ELSE [ok |-> TRUE, status |-> 200,
          body |-> OperationResource(body.operationName, operations[body.operationName])]

\* /api/generateVideo started an operation at the video service and answered
\* 200; generateVideoForScene reads the answer and reaches its polling loop
SubmitAnswered ==
    /\ pc = "submit"
    /\ LET handle == Len(remote) + 1
           answer == GenerateVideoResponse(handle)
       IN  /\ remote' = Append(remote, "running")
           /\ submitResponse' = [sceneId |-> runScenes[i].id, body |-> answer]
           /\ operation' = answer
           /\ pollRequest' = Null
           /\ IF IsDone(answer)
              THEN AfterOperationDone(answer)
              ELSE /\ pc' = "wait"
                   /\ UNCHANGED <<videoStatuses, generationFailed, i>>
    /\ polls' = 0
    /\ UNCHANGED <<step, characters, scenes, error, generatingDescriptions, isStitching,
                   finalVideoUrl, runScenes, enrichedCharacters, pendingDescriptions,
                   globalBible, generatedVideos, histVars>>
    /\ UNCHANGED <<stitchVars, progressVars>>

\* the video service finishes an operation
RemoteSettles ==
    /\ \E handle \in DOMAIN remote :
         /\ remote[handle] = "running"
         /\ \E outcome \in { "video", "error", "novideo" } :
               remote' = [remote EXCEPT ![handle] = outcome]
    /\ UNCHANGED <<uiVars, runVars, histVars, stitchVars, progressVars,
                   submitResponse, pollRequest>>

\* One round of the polling loop: the timer fires, the body is posted to
\* /api/pollOperation and the answer is read.  `polls` counts the rounds
\* modulo MaxPolls + 1.
PollOperation ==
    /\ pc = "wait"
    /\ LET body == PollBody(operation)
           pollResponse == pollOperationHandler(body, remote)
       IN  /\ pollRequest' = [sceneId |-> runScenes[i].id, body |-> body]
           /\ IF pollResponse.ok
              THEN /\ operation' = pollResponse.body
                   /\ IF IsDone(pollResponse.body)
                      THEN AfterOperationDone(pollResponse.body)
                      ELSE /\ videoStatuses' =
                                onPoll(videoStatuses, runScenes[i].id, pollResponse.body)
                           /\ UNCHANGED <<pc, generationFailed, i>>
              ELSE UNCHANGED <<operation, videoStatuses, pc, generationFailed, i>>
    /\ polls' = (polls + 1) % (MaxPolls + 1)
    /\ UNCHANGED <<step, characters, scenes, error, generatingDescriptions, isStitching,
                   finalVideoUrl, runScenes, enrichedCharacters, pendingDescriptions,
                   globalBible, generatedVideos, histVars, remote, submitResponse>>
    /\ UNCHANGED <<stitchVars, progressVars>>

NextJob ==
    \/ handleStoryBreakdown
    \/ handleDragEnd
    \/ handleVideoGeneration
    \/ PrecheckDone
    \/ LoopHead
    \/ AfterLoop
    \/ AuthFailed
    \/ AuthOk
    \/ SubmitFailed
    \/ SubmitAnswered
    \/ RemoteSettles
    \/ PollOperation
    \/ PollThrows
    \/ handleReset

SpecJob == Init /\ [][NextJob]_vars

\* SpecJob with the timer of the polling loop firing again and again
SpecJobLive == SpecJob /\ WF_vars(PollOperation)

\* ------------------------------------------------------------------------
\* SpecPrompt: the /api/generateVideo endpoint on its own.  It serves the
\* bodies generateVideoForScene posts, of any session: a scene of a list of
\* one or two scenes, the enriched characters, the bible built from both and
\* the scene before it.  `requests` logs what it composed; two compositions
\* are enough to compare one with another.
\* ------------------------------------------------------------------------
PromptScenePool ==
    { [scene_description |-> <<"d">>, characters |-> << <<"A">> >>,
       environment |-> <<"a">>, action |-> <<"x">>],
      [scene_description |-> <<>>, characters |-> <<>>,
       environment |-> <<"A", " ">>, action |-> <<>>],
      [scene_description |-> <<"d">>, characters |-> << <<"A">>, <<"B">> >>,
       environment |-> <<"b">>, action |-> <<"y">>] }

PromptScene(k, texts) ==
    [id |-> k, scene_description |-> texts.scene_description,
     characters |-> texts.characters, environment |-> texts.environment,
     action |-> texts.action, transitionToNext |-> "fade"]

PromptSceneLists ==
    { << PromptScene(1, a) >> : a \in PromptScenePool }
    \cup { << PromptScene(1, ab[1]), PromptScene(2, ab[2]) >> :
           ab \in PromptScenePool \X PromptScenePool }

\* a character after the precheck
PromptCharacter(id, name, description) ==
    [id |-> id, name |-> name, imageFile |-> description # Null,
     imageBase64 |-> IF description # Null THEN 1 ELSE NoImage,
     lockedDescription |-> description]

PromptCharacterLists ==
    { <<>>,
      << PromptCharacter(1, <<"A">>, Null) >>,
      << PromptCharacter(1, <<"A">>, DescriptionOf(1)) >>,
      << PromptCharacter(1, <<"A">>, DescriptionOf(1)),
         PromptCharacter(2, <<" ">>, DescriptionOf(1)) >> }

\* POST /api/generateVideo with a body in the complex format: compose the
\* prompt and send it to the video model.
handleRequest ==
    /\ Len(requests) < 2
    /\ \E scs \in PromptSceneLists, chars \in PromptCharacterLists,
          style \in visualStyleOptions, genre \in narrativeGenreOptions :
         \E idx \in 1..Len(scs) :
            requests' = Append(requests,
                GenerateVideoRequest(scs, idx, chars,
                    [BuildGlobalBible(scs, chars) EXCEPT !.style = style, !.genre = genre]))
    /\ UNCHANGED <<uiVars, runVars, describeCalls, stitchCalls, errorsSet, runs>>
    /\ UNCHANGED <<stitchVars, progressVars, jobVars>>

NextPrompt == handleRequest

SpecPrompt == Init /\ [][NextPrompt]_vars

\* ------------------------------------------------------------------------
\* Properties
\* ------------------------------------------------------------------------
StatusOf(k) == videoStatuses[k].status

\* the handler is awaiting stitchVideos
InStitchVideos ==
    pc \in { "stitch", "stitch_load", "stitch_write", "stitch_single", "stitch_exec",
             "stitch_read", "stitch_delete", "stitch_return", "stitch_threw" }

Submitted(sceneId) == \E n \in 1..Len(requests) : requests[n].sceneId = sceneId

\* C1: fail-fast.  Whenever a scene carries status 'error', the handler has
\* left the loop, every later scene is still 'pending' and no generation job
\* was sent for any of them.
C1_FailFast ==
    \A k \in 1..Len(videoStatuses) :
        StatusOf(k) = "error" =>
            /\ pc \in {"afterLoop", "idle"}
            /\ \A j \in (k + 1)..Len(videoStatuses) :
                  /\ StatusOf(j) = "pending"
                  /\ ~Submitted(videoStatuses[j].sceneId)

\* a run of three scenes ended with the first scene in error
C1_Witness ==
    /\ pc = "idle"
    /\ Len(videoStatuses) = 3
    /\ StatusOf(1) = "error"
    /\ StatusOf(3) = "pending"

\* C2: ordering.  A scene that is not 'pending' has only 'complete' scenes
\* before it, so at most one scene is 'generating' or 'polling' and the job
\* of a scene is sent only after all earlier scenes are complete.
C2_Ordering ==
    /\ \A k \in 1..Len(videoStatuses) :
          StatusOf(k) # "pending" => \A j \in 1..(k - 1) : StatusOf(j) = "complete"
    /\ Cardinality({ k \in 1..Len(videoStatuses) :
                        StatusOf(k) \in {"generating", "polling"} }) <= 1

\* the second scene is being generated after the first one completed
C2_Witness ==
    /\ Len(videoStatuses) >= 2
    /\ StatusOf(1) = "complete"
    /\ StatusOf(2) = "generating"
    /\ pc = "submit"

\* C3: terminal states.  No step of the running handler (poll callback,
\* status update of a later scene, stitching) changes the status, videoUrl or
\* error of a scene that is 'complete' or 'error'.
C3_TerminalStable ==
    [][ pc # "idle" =>
          \A k \in 1..Len(videoStatuses) :
              StatusOf(k) \in {"complete", "error"} =>
                  /\ k <= Len(videoStatuses')
                  /\ videoStatuses'[k] = videoStatuses[k] ]_vars

\* the third scene is polled while the two scenes before it are complete
C3_Witness ==
    /\ Len(videoStatuses) = 3
    /\ StatusOf(1) = "complete"
    /\ StatusOf(2) = "complete"
    /\ StatusOf(3) = "polling"

StatusEdges ==
    { <<"pending", "generating">>, <<"generating", "polling">>,
      <<"polling", "complete">>, <<"generating", "error">>, <<"polling", "error">> }

C5_NoStitchAfterError ==
    (\E k \in 1..Len(videoStatuses) : StatusOf(k) = "error") =>
        /\ stitchCalls = <<>>
        /\ ~isStitching
        /\ ~InStitchVideos
        /\ error = Null
        /\ finalVideoUrl = Null
        /\ (Len(videoStatuses) = 3 /\ StatusOf(2) = "error") =>
              /\ StatusOf(1) = "complete"
              /\ StatusOf(3) = "pending"

\* scenario B: three scenes, the second one failed
C5_Witness ==
    /\ pc = "idle"
    /\ Len(videoStatuses) = 3
    /\ StatusOf(2) = "error"
    /\ generationFailed

PrecheckFailedPrefix == "Failed to analyze character images: "

PrecheckFailed == error # Null /\ error[1] = PrecheckFailedPrefix

\* C6: precheck failure.  Once the precheck has reported a failed character
\* description, the handler has returned: no status has left 'pending', no
\* generation job was sent, stitchVideos was not called and exactly one
\* run-level message was set.
C6_PrecheckAbort ==
    PrecheckFailed =>
        /\ pc = "idle"
        /\ \A k \in 1..Len(videoStatuses) : StatusOf(k) = "pending"
        /\ requests = <<>>
        /\ stitchCalls = <<>>
        /\ ~isStitching
        /\ ~generatingDescriptions
        /\ errorsSet = 1

\* the precheck of a run with two characters failed and the review step is back
C6_Witness ==
    /\ PrecheckFailed
    /\ step = "review"
    /\ Len(characters) = 2
    /\ runs = 1

HasReferenceImage(char) == char.imageBase64 # NoImage /\ char.imageFile

ImageOfDescription(description) == description[2]

DescriptionsMatchImages(chars) ==
    \A c \in 1..Len(chars) :
        chars[c].lockedDescription # Null =>
            ImageOfDescription(chars[c].lockedDescription) = chars[c].imageBase64

BibleBuilt == pc \notin {"idle", "precheck"} \/ (pc = "idle" /\ videoStatuses # <<>>)

TrimmedEnvironments(scs) == { Trim(scs[k].environment) : k \in 1..Len(scs) }

FirstAppearance(scs, text) ==
    CHOOSE k \in 1..Len(scs) :
        /\ Trim(scs[k].environment) = text
        /\ \A j \in 1..(k - 1) : Trim(scs[j].environment) # text

\* C9: environments of the bible.  Each distinct trimmed environment text of
\* the scenes occurs exactly once, the list is as long as there are distinct
\* trimmed texts, entry k has id env_k and the entries are in order of first
\* appearance across the scenes.
C9_Environments ==
    BibleBuilt =>
        LET envs == globalBible.environments
            texts == TrimmedEnvironments(runScenes)
        IN  /\ Len(envs) = Cardinality(texts)
            /\ \A t \in texts :
                  Cardinality({ k \in 1..Len(envs) : envs[k].description = t }) = 1
            /\ \A k \in 1..Len(envs) :
                  /\ envs[k].id = <<"env_", k>>
                  /\ envs[k].description \in texts
            /\ \A k \in 1..Len(envs) : \A l \in (k + 1)..Len(envs) :
                  FirstAppearance(runScenes, envs[k].description)
                     < FirstAppearance(runScenes, envs[l].description)

\* three scenes with three different texts, two of which are equal once
\* trimmed, and the text that trims to the other value comes second
C9_Witness ==
    /\ BibleBuilt
    /\ Len(runScenes) = 3
    /\ runScenes[1].environment # runScenes[3].environment
    /\ Trim(runScenes[1].environment) = Trim(runScenes[3].environment)
    /\ Trim(runScenes[2].environment) # Trim(runScenes[1].environment)
    /\ Len(globalBible.environments) = 2

\* the n-th generation job is the one of the scene at position n and names
\* the scene at position n-1 as its previous scene (none for the first)
PrevSceneFollowsOrder ==
    \A n \in 1..Len(requests) :
        /\ n <= Len(scenes)
        /\ requests[n].sceneId = scenes[n].id
        /\ requests[n].prevSceneId = (IF n = 1 THEN 0 ELSE scenes[n - 1].id)

\* a step of handleDragEnd that moved a scene
IsReorder == step = "review" /\ step' = "review" /\ scenes' # scenes

EnvironmentTexts(bible) ==
    { bible.environments[k].description : k \in 1..Len(bible.environments) }

\* C10 as claimed: reordering changes the previous-scene references but
\* leaves the characters and the environments (ids and descriptions) of the
\* bible built from the scene list unchanged.
C10_ReorderKeepsBible ==
    [][ /\ PrevSceneFollowsOrder'
        /\ IsReorder =>
              /\ BuildGlobalBible(scenes', characters').characters
                    = BuildGlobalBible(scenes, characters).characters
              /\ BuildGlobalBible(scenes', characters').environments
                    = BuildGlobalBible(scenes, characters).environments ]_vars

\* C10 amended: reordering changes the previous-scene references and leaves
\* the characters and the set of environment descriptions of the bible
\* unchanged (the env_k ids follow the first appearance in the new order).
C10_ReorderKeepsBibleContent ==
    [][ /\ PrevSceneFollowsOrder'
        /\ IsReorder =>
              /\ BuildGlobalBible(scenes', characters').characters
                    = BuildGlobalBible(scenes, characters).characters
              /\ EnvironmentTexts(BuildGlobalBible(scenes', characters'))
                    = EnvironmentTexts(BuildGlobalBible(scenes, characters))
              /\ Len(BuildGlobalBible(scenes', characters').environments)
                    = Len(BuildGlobalBible(scenes, characters).environments) ]_vars

\* a run on a reordered list: the second job is the one of the scene created
\* first and names a scene created later as its previous scene, and the
\* bible lists the environments in the new order of first appearance
C10_Witness ==
    /\ Len(requests) >= 2
    /\ requests[2].prevSceneId > requests[2].sceneId
    /\ Len(globalBible.environments) = 2
    /\ globalBible.environments[1].description = Trim(runScenes[1].environment)
    /\ runScenes[1].id # 1

\* ------------------------------------------------------------------------
\* Properties of the composed directive (SpecPrompt)
\* ------------------------------------------------------------------------
IsPrefix(p, text) == Len(p) <= Len(text) /\ SubSeq(text, 1, Len(p)) = p

Contains(text, part) ==
    \E k \in 0..(Len(text) - Len(part)) : SubSeq(text, k + 1, k + Len(part)) = part

\* C11: every directive sent to the video model, the one of a first scene
\* (no previous scene) included, begins with the opening clause
\* "In a <style> aesthetic, with the dramatic tone of a <genre>, " with the
\* style and the genre of the bible in it.
C11_OpeningClause ==
    \A k \in 1..Len(requests) :
        IsPrefix(OpeningClause(requests[k].globalBible.style, requests[k].globalBible.genre),
                 requests[k].prompt)

\* a first scene and a later scene were composed, with different styles and genres
C11_Witness ==
    /\ Len(requests) = 2
    /\ requests[1].prevScene = <<>>
    /\ requests[2].prevScene # <<>>
    /\ requests[1].globalBible.style # requests[2].globalBible.style
    /\ requests[1].globalBible.genre # requests[2].globalBible.genre

\* C12: determinism.  Two compositions with the same scene, the same
\* continuity model and the same previous scene give the same directive.
C12_Deterministic ==
    \A a, b \in 1..Len(requests) :
        ( /\ requests[a].scene = requests[b].scene
          /\ requests[a].globalBible = requests[b].globalBible
          /\ requests[a].prevScene = requests[b].prevScene )
        => requests[a].prompt = requests[b].prompt

\* C13: the directive has the "lock character designs" block in front if
\* and only if there is no previous scene, and with a previous scene its
\* continuity note quotes the action of that scene.
C13_LockBlockIffFirst ==
    \A k \in 1..Len(requests) :
        /\ IsPrefix(LockBlock, requests[k].prompt) <=> requests[k].prevScene = <<>>
        /\ requests[k].prevScene # <<>>
              => Contains(requests[k].prompt, requests[k].prevScene[1].action)
\* ------------------------------------------------------------------------
\* Properties of the composition (SpecStitch and Spec)
\* ------------------------------------------------------------------------
IsXfade(entry) == entry.filter = "xfade"

\* the video transitions of a filter graph, in order
Transitions(filterGraph) == SelectSeq(filterGraph, IsXfade)

\* C14: offset law.  In the filter graph the engine has executed for N >= 2
\* clips, transition i (0-based, between clip i and clip i+1) has the offset
\* (i+1)*7 and the duration 1, for every i in 0..N-2.
C14_OffsetLaw ==
    pc = "stitch_read" =>
        LET ts == Transitions(ffmpegFS[FinalFile].filterGraph)
        IN  /\ Len(videos) >= 2
            /\ Len(ts) = Len(videos) - 1
            /\ \A n \in 0..(Len(videos) - 2) :
                  /\ ts[n + 1].offset = (n + 1) * 7
                  /\ ts[n + 1].duration = 1

\* a graph for the longest list has been executed
C14_Witness ==
    /\ pc = "stitch_read"
    /\ Len(videos) = MaxScenes

\* C15: one clip.  A call with exactly one clip returns the data of that
\* clip, and it never reaches the exec of the engine (nor the read of its
\* output or the clean-up after it), so no graph is built.
C15_SingleClipIdentity ==
    /\ (pc = "stitch_return" /\ Len(videos) = 1)
          => data = getFileDataFromBlobUrl(videos[1].url)
    /\ (pc = "idle" /\ stitchCalls # <<>> /\ finalVideoUrl # Null /\ Len(videos) = 1)
          => finalVideoUrl = createObjectURL(getFileDataFromBlobUrl(videos[1].url))
    /\ pc \in { "stitch_exec", "stitch_read", "stitch_delete" } => Len(videos) >= 2

\* a one-clip call resolved on an engine that still holds the movie of an
\* earlier call
C15_Witness ==
    /\ pc = "idle"
    /\ Len(stitchCalls) = 2
    /\ Len(videos) = 1
    /\ finalVideoUrl # Null
    /\ FinalFile \in DOMAIN ffmpegFS

\* C16: when every scene of a run succeeded, stitchVideos is called with
\* exactly one clip per scene, the clip at position k being the video of the
\* scene at position k, and the graph built for them has N-1 transitions.
C16_CompositionInput ==
    /\ stitchCalls # <<>> =>
          /\ Len(videos) = Len(runScenes)
          /\ \A k \in 1..Len(videos) :
                /\ videos[k].url = BlobUrl(runScenes[k].id)
                /\ videos[k].url = videoStatuses[k].videoUrl
          /\ Len(Transitions(Command(videos).filterGraph)) = Len(runScenes) - 1
    /\ ( /\ pc \in { "stitch", "idle" }
         /\ videoStatuses # <<>>
         /\ \A k \in 1..Len(videoStatuses) : StatusOf(k) = "complete" )
          => Len(stitchCalls) = 1

\* scenario A with reordered scenes: three clips go to the composition
C16_Witness ==
    /\ pc = "stitch"
    /\ Len(runScenes) = 3
    /\ runScenes[1].id # 1

\* C17: whenever stitchVideos returns, none of the files scene0.mp4 ..
\* scene(N-1).mp4 it wrote is left in the file system of the engine.
C17_TempFilesDeleted ==
    pc = "stitch_return" =>
        \A k \in 0..(Len(videos) - 1) : SceneFile(k) \notin DOMAIN ffmpegFS

\* C18: when writeFile, exec or readFile fails, stitchVideos hands back no
\* data and throws an error whose message contains the diagnostic message
\* of the engine.
C18_DiagnosticAttached ==
    (pc = "stitch_threw" /\ thrown.from \in { "writeFile", "exec", "readFile" }) =>
        /\ data = Null
        /\ finalVideoUrl = Null
        /\ Contains(thrown.message, EngineDiagnostic)

AllComplete(statuses) ==
    \A k \in 1..Len(statuses) :
        /\ statuses[k].status = "complete"
        /\ statuses[k].videoUrl = BlobUrl(statuses[k].sceneId)
        /\ statuses[k].error = Null

\* C19: a failed composition.  When the await of stitchVideos ends without
\* a final URL, every scene is still 'complete' with its videoUrl, the
\* status list is untouched, the step stays 'generate' and a run-level error
\* is set.
C19_CompositionFailureKeepsClips ==
    [][ (pc = "stitch" /\ pc' # "stitch" /\ finalVideoUrl' = Null) =>
            /\ videoStatuses' = videoStatuses
            /\ videoStatuses # <<>>
            /\ AllComplete(videoStatuses)
            /\ step' = "generate"
            /\ error' # Null
            /\ error'[1] # "" ]_vars

\* the composition of three completed scenes has failed
C19_Witness ==
    /\ pc = "idle"
    /\ error = StitchFailedMessage
    /\ Len(videoStatuses) = 3
    /\ AllComplete(videoStatuses)
    /\ finalVideoUrl = Null
    /\ step = "generate"

\* a message is on the status of the scene the loop is at, or set as the
\* run-level error
MessageRecorded ==
    \/ error # Null /\ error[1] # ""
    \/ /\ i \in 1..Len(videoStatuses)
       /\ videoStatuses[i].error # Null
       /\ videoStatuses[i].error[1] # ""

\* the operation came back done with an error or without a video
JobFailed ==
    /\ SubmitResponse \/ PollResponse
    /\ operation'.done
    /\ operation'.result # "video"

\* C20: no silent failure.  Every failing step of a run (a character
\* description, the submission, a poll attempt, a job reported failed, the
\* download, the composition) leaves a non-empty message on the scene's
\* status or as the run-level error.
C20_NoSilentFailure ==
    [][ ( \/ DescribeRejected
          \/ AuthFailed
          \/ SubmitFailed
          \/ PollNotOk
          \/ PollThrows
          \/ JobFailed
          \/ DownloadFailed
          \/ StitchFailed ) => MessageRecorded' ]_vars

\* ------------------------------------------------------------------------
\* Properties of the progress signal and of the engine instance (SpecStitch)
\* ------------------------------------------------------------------------

\* C24: every progress value stitchVideos forwards to a callback lies in
\* the closed range 0.0 to 1.0 (0 to ProgressOne hundredths), whatever the
\* engine reported.
C24_ProgressInRange ==
    \A k \in 1..Len(invoked) :
        /\ invoked[k].progress >= 0
        /\ invoked[k].progress <= ProgressOne

\* C29: one progress event of the engine invokes exactly one callback, the
\* callback of the stitchVideos call in progress, also when earlier calls
\* ran on the same engine instance.
C29_OneCallbackPerEvent ==
    invoked # <<>> =>
        /\ Len(invoked) = 1
        /\ invoked[1].call = Len(stitchCalls)

\* C30: the instance loadFFmpeg hands out has completed its load: when
\* stitchVideos goes on to write the clips, the instance is loaded.
C30_OnlyLoadedInstances ==
    pc = "stitch_write" => ffmpeg = "loaded"

\* ------------------------------------------------------------------------
\* Properties of the status list (Spec)
\* ------------------------------------------------------------------------
\* handleVideoGeneration is between the creation of the statuses and its end
InRun == pc \in { "loop", "auth", "submit", "wait", "download", "afterLoop", "stitch" }

\* one entry per scene of the snapshot, in scene order
OnePerScene(statuses, scs) ==
    /\ Len(statuses) = Len(scs)
    /\ \A k \in 1..Len(scs) :
          /\ statuses[k].sceneId = scs[k].id
          /\ statuses[k].sceneIndex = k - 1

Fresh(statuses) ==
    \A k \in 1..Len(statuses) :
        /\ statuses[k].status = "pending"
        /\ statuses[k].videoUrl = Null
        /\ statuses[k].error = Null

\* C23: a run that passes the precheck enters its loop with one status per
\* scene of its snapshot, in scene order, all 'pending' without videoUrl and
\* error, whatever an earlier run left; during the run no entry is added or
\* removed.
C23_FreshStatuses ==
    [][ /\ (pc = "precheck" /\ pc' = "loop") =>
              /\ OnePerScene(videoStatuses', runScenes')
              /\ Fresh(videoStatuses')
        /\ (InRun /\ InRun') =>
              /\ OnePerScene(videoStatuses', runScenes)
              /\ runScenes' = runScenes ]_vars

\* the second run of a session is at the head of its loop, with three
\* reordered scenes
C23_Witness ==
    /\ runs = 2
    /\ pc = "loop"
    /\ i = 1
    /\ Len(videoStatuses) = 3
    /\ videoStatuses[1].sceneId # 1
    /\ Fresh(videoStatuses)

\* the status of the scene the loop is at is 'error' with this message
FailedWith(statuses, message) ==
    /\ statuses[i].status = "error"
    /\ statuses[i].error = message
    /\ statuses[i].videoUrl = Null

\* C25: a scene becomes 'complete' only in the step in which the artifact of
\* an operation that is done with a video has been retrieved; an operation
\* done with an error or without a video and a failed retrieval put the
\* scene in 'error' with the message of the failure; a failed submission
\* puts it in 'error' straight from 'generating', without 'polling'.
C25_CompleteOnlyAfterRetrieval ==
    [][ /\ \A k \in 1..Len(videoStatuses') :
              ( /\ videoStatuses'[k].status = "complete"
                /\ ~(k <= Len(videoStatuses) /\ videoStatuses[k].status = "complete") )
              => /\ pc = "download"
                 /\ k = i
                 /\ operation.done
                 /\ operation.result = "video"
                 /\ videoStatuses'[k].videoUrl = BlobUrl(runScenes[k].id)
        /\ JobFailed =>
              FailedWith(videoStatuses',
                         IF operation'.result = "error" THEN JobFailedMessage
                         ELSE NoVideoMessage)
        /\ DownloadFailed =>
              \/ FailedWith(videoStatuses', DownloadFailedMessage)
              \/ FailedWith(videoStatuses', FetchFailedMessage)
        /\ SubmitFailed =>
              /\ videoStatuses[i].status = "generating"
              /\ \/ FailedWith(videoStatuses', SubmitFailedMessage)
                 \/ FailedWith(videoStatuses', FetchFailedMessage) ]_vars

\* the first scene is complete and the operation of the second one came
\* back done with an error
C25_Witness ==
    /\ Len(videoStatuses) >= 2
    /\ videoStatuses[1].status = "complete"
    /\ videoStatuses[2].status = "error"
    /\ videoStatuses[2].error = JobFailedMessage
    /\ operation.done
    /\ operation.result = "error"

\* C28: in every state of the status list a scene has a videoUrl exactly
\* when its status is 'complete' and a (non-empty) error message exactly
\* when its status is 'error'.
C28_UrlAndErrorMatchStatus ==
    \A k \in 1..Len(videoStatuses) :
        /\ videoStatuses[k].videoUrl # Null <=> videoStatuses[k].status = "complete"
        /\ videoStatuses[k].error # Null <=> videoStatuses[k].status = "error"
        /\ videoStatuses[k].error # Null => videoStatuses[k].error[1] # ""

\* one scene complete with its video, the next one failed with its message
C28_Witness ==
    /\ Len(videoStatuses) = 3
    /\ videoStatuses[1].status = "complete"
    /\ videoStatuses[1].videoUrl = BlobUrl(videoStatuses[1].sceneId)
    /\ videoStatuses[2].status = "error"
    /\ videoStatuses[2].error = DownloadFailedMessage
    /\ videoStatuses[3].status = "pending"

\* ------------------------------------------------------------------------
\* Properties of the filter graph (SpecStitch)
\* ------------------------------------------------------------------------
IsAcrossfade(entry) == entry.filter = "acrossfade"

\* the audio crossfades of a filter graph, in order
Crossfades(filterGraph) == SelectSeq(filterGraph, IsAcrossfade)

\* C26: the chain.  In the graph executed for N >= 2 clips the left input
\* of transition 0 is clip 0, the left input of transition n > 0 is the
\* output of transition n-1, the right input of transition n is clip n+1,
\* the mapped video and audio outputs are the outputs of transition N-2 and
\* every audio crossfade has the duration of its video transition.
C26_Chain ==
    pc = "stitch_read" =>
        LET movie == ffmpegFS[FinalFile]
            xs == Transitions(movie.filterGraph)
            as == Crossfades(movie.filterGraph)
            N == Len(videos)
        IN  /\ N >= 2
            /\ Len(xs) = N - 1
            /\ Len(as) = N - 1
            /\ xs[1].left = VideoInput(0)
            /\ as[1].left = AudioInput(0)
            /\ \A n \in 0..(N - 2) :
                  /\ xs[n + 1].right = VideoInput(n + 1)
                  /\ as[n + 1].right = AudioInput(n + 1)
                  /\ as[n + 1].d = xs[n + 1].duration
                  /\ n > 0 => /\ xs[n + 1].left = xs[n].out
                              /\ as[n + 1].left = as[n].out
                  /\ \A m \in 0..(N - 2) : m # n => xs[m + 1].out # xs[n + 1].out
            /\ movie.mapVideo = xs[N - 1].out
            /\ movie.mapAudio = as[N - 1].out
            /\ \A k \in 1..N : movie.clips[k] = getFileDataFromBlobUrl(videos[k].url)

\* the graph of the longest list has been executed by the second call on
\* the engine
C26_Witness ==
    /\ pc = "stitch_read"
    /\ Len(videos) = MaxScenes
    /\ Len(stitchCalls) = 2

\* a transition kind the table does not know
UnknownTransition == "zoom"

\* C27: the kind of the transition between clip n and clip n+1 is the
\* transitionToNext of the scene at position n (fade for a kind the table
\* does not know); the transitionToNext of the last scene has no influence
\* on the graph.
C27_TransitionOfScene ==
    pc = "stitch_read" =>
        LET graph == ffmpegFS[FinalFile].filterGraph
            xs == Transitions(graph)
            N == Len(runScenes)
        IN  /\ Len(xs) = N - 1
            /\ \A n \in 1..(N - 1) :
                  /\ xs[n].transition = transitionToFfmpegFilter(runScenes[n].transitionToNext)
                  /\ runScenes[n].transitionToNext \in TransitionTypes
                        => xs[n].transition = runScenes[n].transitionToNext
            /\ transitionToFfmpegFilter(UnknownTransition) = "fade"
            /\ \A t \in TransitionTypes \cup { UnknownTransition } :
                  Command([videos EXCEPT ![N].transition = t]).filterGraph = graph

\* a graph was executed for scenes whose last transition differs from the
\* ones before it
C27_Witness ==
    /\ pc = "stitch_read"
    /\ Len(runScenes) = 3
    /\ runScenes[1].transitionToNext = "wipeleft"
    /\ runScenes[2].transitionToNext = "fade"
    /\ runScenes[3].transitionToNext = "wipeleft"

\* ------------------------------------------------------------------------
\* Properties of the polling protocol (SpecJob, SpecJobLive)
\* ------------------------------------------------------------------------
\* the scene in progress was submitted and its operation is finished at the
\* video service
RemoteReportsDone ==
    /\ pc = "wait"
    /\ submitResponse # Null
    /\ submitResponse.sceneId = runScenes[i].id
    /\ remote[submitResponse.body.operationName] # "running"

SceneTerminal ==
    /\ i \in 1..Len(videoStatuses)
    /\ videoStatuses[i].status \in { "complete", "error" }

\* C21: polling liveness.  With the polling rounds scheduled fairly, a
\* submitted scene whose operation finishes at the video service eventually
\* becomes 'complete' or 'error'.
C21_PollingLiveness == RemoteReportsDone ~> SceneTerminal

\* C22: handle protocol.  Every poll request carries the handle the
\* submission response of the same scene returned, and that response
\* carries a done flag.
C22_PollCarriesHandle ==
    pollRequest # Null =>
        /\ submitResponse # Null
        /\ pollRequest.sceneId = submitResponse.sceneId
        /\ "done" \in DOMAIN submitResponse.body
        /\ "operationName" \in DOMAIN pollRequest.body
        /\ pollRequest.body.operationName = submitResponse.body.operationName
====
